---- MODULE Spec2Model ----
(***************************************************************************)
(* Model of the lexiGuide document-analysis backends:                      *)
(*   src/backend/app.py        (Flask app with Firebase and Gemini)        *)
(*   src/lexiguideback/main.py (the earlier stand-alone backend)           *)
(*                                                                         *)
(* Text is modelled as a sequence of lexemes.  The lexemes are             *)
(*   "{"  "}"  ","  ":"   the characters the code and the libraries scan   *)
(*   " "                  a whitespace character                           *)
(*   "x"                  a prose character that is none of the above      *)
(*   "m"                  the member   "rent_amount": "Not specified"      *)
(*   "M"                  the member   "sentiment": "Positive"             *)
(*   "D"                  the member   "doc_type": "Loan Contract"         *)
(*   "1"                  a JSON number                                    *)
(*   "fence"  "json"      a markdown fence (three backticks), its tag      *)
(* Python indices (0-based, -1 for "not found") are kept as in the code.   *)
(***************************************************************************)
EXTENDS Integers, Sequences, FiniteSets

\* ------------------------------------------------------------------ bounds

\* Longest main_response the interpreter is run on.
MaxLen == 5

\* ------------------------------------------------------------ text helpers

Seqs(S, n) == UNION {[1..k -> S] : k \in 0..n}

Ws == {" "}

\* str.find(c): 0-based index of the first occurrence, -1 when absent.
Find(s, c) ==
    IF \E i \in 1..Len(s) : s[i] = c
    THEN (CHOOSE i \in 1..Len(s) : s[i] = c /\ \A j \in 1..(i-1) : s[j] # c) - 1
    ELSE -1

\* str.rfind(c): 0-based index of the last occurrence, -1 when absent.
RFind(s, c) ==
    IF \E i \in 1..Len(s) : s[i] = c
    THEN (CHOOSE i \in 1..Len(s) : s[i] = c /\ \A j \in (i+1)..Len(s) : s[j] # c) - 1
    ELSE -1

\* s[a:b] for a, b >= 0.
Slice(s, a, b) ==
    LET hi == IF b > Len(s) THEN Len(s) ELSE b
    IN  IF a >= hi THEN <<>> ELSE SubSeq(s, a + 1, hi)

\* s[a:] for a >= 0.
SliceFrom(s, a) == Slice(s, a, Len(s))

\* str.strip(): leading and trailing whitespace removed.
Strip(s) ==
    IF \A i \in 1..Len(s) : s[i] \in Ws
    THEN <<>>
    ELSE LET lo == CHOOSE i \in 1..Len(s) :
                       s[i] \notin Ws /\ \A j \in 1..(i-1) : s[j] \in Ws
             hi == CHOOSE i \in 1..Len(s) :
                       s[i] \notin Ws /\ \A j \in (i+1)..Len(s) : s[j] \in Ws
         IN  SubSeq(s, lo, hi)

\* ------------------------------------------------------------------- JSON

Members == {"m", "M", "D"}

MemberKey(t) ==
    CASE t = "m" -> "rent_amount"
      [] t = "M" -> "sentiment"
      [] t = "D" -> "doc_type"

MemberValue(t) ==
    CASE t = "m" -> "Not specified"
      [] t = "M" -> "Positive"
      [] t = "D" -> "Loan Contract"

\* A Python dict: a function from its keys.
EmptyDict == [k \in {} |-> ""]

Keys(d) == DOMAIN d

\* d[k] = v
DictSet(d, k, v) == [x \in (DOMAIN d) \cup {k} |-> IF x = k THEN v ELSE d[x]]

\* d.get(k, default)
DictGet(d, k, default) == IF k \in DOMAIN d THEN d[k] ELSE default

\* Index of the first non-whitespace lexeme at or after i, Len(s)+1 if none.
SkipWs(s, i) ==
    IF \E j \in i..Len(s) : s[j] \notin Ws
    THEN CHOOSE j \in i..Len(s) : s[j] \notin Ws /\ \A k \in i..(j-1) : s[k] \in Ws
    ELSE Len(s) + 1

JsonError == [kind |-> "error"]

\* The members of an object from position j on (j is past the whitespace that
\* follows "{" or ","): a member, then "," and another member, or "}".
RECURSIVE ParseMembers(_, _, _)
ParseMembers(s, j, acc) ==
    IF j > Len(s) \/ s[j] \notin Members
    THEN JsonError
    ELSE LET d == DictSet(acc, MemberKey(s[j]), MemberValue(s[j]))
             k == SkipWs(s, j + 1)
         IN  IF k > Len(s) THEN JsonError
             ELSE IF s[k] = "}" THEN [kind |-> "dict", value |-> d, next |-> k + 1]
             ELSE IF s[k] = "," THEN ParseMembers(s, SkipWs(s, k + 1), d)
             ELSE JsonError

\* An object whose "{" is at position i.
ParseObject(s, i) ==
    LET j == SkipWs(s, i + 1)
    IN  IF j > Len(s) THEN JsonError
        ELSE IF s[j] = "}" THEN [kind |-> "dict", value |-> EmptyDict, next |-> j + 1]
        ELSE ParseMembers(s, j, EmptyDict)

\* json.loads(s): a dict, another JSON value, or JSONDecodeError.
JsonLoads(s) ==
    LET i == SkipWs(s, 1)
    IN  IF i > Len(s) THEN JsonError
        ELSE IF s[i] = "{"
        THEN LET r == ParseObject(s, i)
             IN  IF r.kind = "dict" /\ SkipWs(s, r.next) > Len(s)
                 THEN [kind |-> "dict", value |-> r.value]
                 ELSE JsonError
        ELSE IF s[i] = "1"
        THEN IF SkipWs(s, i + 1) > Len(s) THEN [kind |-> "other"] ELSE JsonError
        ELSE JsonError

\* ------------------------------------------------------------- str.format

\* Index of the first lexeme at or after i that ends a field name
\* ("}", ":") or may not occur in one ("{"); Len(t)+1 if none.
NameEnd(t, i) ==
    IF \E j \in i..Len(t) : t[j] \in {"}", ":", "{"}
    THEN CHOOSE j \in i..Len(t) :
             t[j] \in {"}", ":", "{"} /\ \A k \in i..(j-1) : t[k] \notin {"}", ":", "{"}
    ELSE Len(t) + 1

\* Index of the "}" that closes a format spec scanned from j with `count`
\* braces open; 0 when the template ends first.
RECURSIVE SpecEnd(_, _, _)
SpecEnd(t, j, count) ==
    IF j > Len(t) THEN 0
    ELSE IF t[j] = "{" THEN SpecEnd(t, j + 1, count + 1)
    ELSE IF t[j] = "}"
         THEN IF count = 1 THEN j ELSE SpecEnd(t, j + 1, count - 1)
    ELSE SpecEnd(t, j + 1, count)

\* Lookup with a slip: a name that is not supplied is left in place as a
\* placeholder instead of raising KeyError.
LookupLenient(name, kwargs) ==
    IF Len(name) = 0 THEN [kind |-> "IndexError"]
    ELSE IF Len(name) = 1 /\ name[1] \in DOMAIN kwargs
         THEN [kind |-> "ok", text |-> kwargs[name[1]]]
    ELSE [kind |-> "ok", text |-> <<"{">> \o name \o <<"}">>]

\* The object a field name denotes among the keyword arguments.
Lookup(name, kwargs) ==
    IF Len(name) = 0 THEN [kind |-> "IndexError"]
    ELSE IF Len(name) = 1 /\ name[1] \in DOMAIN kwargs
         THEN [kind |-> "ok", text |-> kwargs[name[1]]]
    ELSE [kind |-> "KeyError", name |-> name]

\* format(value, spec) for a str value: none of the model's lexemes is a
\* valid format spec, so only the empty spec formats.
ApplySpec(value, spec) ==
    IF Len(spec) = 0 THEN [kind |-> "ok", text |-> value]
    ELSE [kind |-> "ValueError"]

\* The formatter's loop over template t from position i, `out` produced so
\* far, `depth` levels of nested format specs still allowed.
RECURSIVE FormatFrom(_, _, _, _, _)
FormatFrom(t, i, kwargs, out, depth) ==
    IF depth <= 0 THEN [kind |-> "ValueError"]
    ELSE IF i > Len(t) THEN [kind |-> "ok", text |-> out]
    ELSE IF t[i] = "{"
    THEN IF i = Len(t) THEN [kind |-> "ValueError"]
         ELSE IF t[i + 1] = "{" THEN FormatFrom(t, i + 2, kwargs, out \o <<"{">>, depth)
         ELSE LET j == NameEnd(t, i + 1)
              IN  IF j > Len(t) \/ t[j] = "{" THEN [kind |-> "ValueError"]
                  ELSE LET end == IF t[j] = "}" THEN j ELSE SpecEnd(t, j + 1, 1)
                       IN  IF end = 0 THEN [kind |-> "ValueError"]
                           ELSE LET name == SubSeq(t, i + 1, j - 1)
                                    spec == SubSeq(t, j + 1, end - 1)
                                    obj  == Lookup(name, kwargs)
                                IN  IF obj.kind # "ok" THEN obj
                                    ELSE LET sp == IF \E k \in 1..Len(spec) : spec[k] = "{"
                                                   THEN FormatFrom(spec, 1, kwargs, <<>>, depth - 1)
                                                   ELSE [kind |-> "ok", text |-> spec]
                                         IN  IF sp.kind # "ok" THEN sp
                                             ELSE LET r == ApplySpec(obj.text, sp.text)
                                                  IN  IF r.kind # "ok" THEN r
                                                      ELSE FormatFrom(t, end + 1, kwargs,
                                                                      out \o r.text, depth)
    ELSE IF t[i] = "}"
    THEN IF i < Len(t) /\ t[i + 1] = "}"
         THEN FormatFrom(t, i + 2, kwargs, out \o <<"}">>, depth)
         ELSE [kind |-> "ValueError"]
    ELSE FormatFrom(t, i + 1, kwargs, out \o <<t[i]>>, depth)

\* Nested format specs the formatter expands before it gives up.
FormatRecursionDepth == 2

\* template.format(**kwargs): the text, or the exception raised.
Format(t, kwargs) == FormatFrom(t, 1, kwargs, <<>>, FormatRecursionDepth)

\* ------------------------------------------------------------------ state

VARIABLES
    \* the request being served
    backend,                \* "app" (src/backend/app.py) or "main" (src/lexiguideback/main.py)
    pc,                     \* the handler's position
    request,                \* what the client sent
    document_text,          \* the extracted text
    doc_type,               \* the classification's document type
    sentiment,              \* the classification's sentiment label
    main_response,          \* the cleaned output of the main analysis
    key_info_json,          \* the structured result
    summary_and_checklist,  \* the residual text
    risk_analysis,
    questions_to_ask,
    legal_formalities_guidance,
    missing_clauses,
    calls,                  \* Completion Client calls issued, in order
    call_failures,          \* the calls among them that raised
    documents,              \* records written to the Document Store
    status,                 \* the HTTP status of the response, 0 before it
    body,                   \* the response body
    \* the interpretation step run on its own
    raw,                    \* the text the step was first given
    fault,                  \* an exception left the step
    ipc,                    \* "idle", "start", "done", "rerun" (residual interpreted)
    \* str.format run on its own
    segments,               \* the template as written: text, escapes, fields
    template,               \* the template's lexemes
    variables,              \* the keyword arguments
    prompt,                 \* what format returned or raised
    rpc,                    \* "idle", "start", "done"
    \* simultaneous /analyze requests on main.py
    files,                  \* the working directory "./": name -> content
    uploads,                \* the upload and form of each request
    workers                 \* each request's position, locals and response

interpVars == <<sentiment, main_response, key_info_json, summary_and_checklist>>

analysisVars == <<risk_analysis, questions_to_ask, legal_formalities_guidance,
                  missing_clauses>>

requestVars == <<backend, pc, request, document_text, doc_type, analysisVars,
                 calls, call_failures, documents, status, body>>

harnessVars == <<raw, fault, ipc>>

renderVars == <<segments, template, variables, prompt, rpc>>

uploadVars == <<files, uploads, workers>>

vars == <<requestVars, interpVars, harnessVars, renderVars, uploadVars>>

\* ------------------------------------------- /analyze: response interpreter

\* The except clause with a slip: the exception is raised again.
OnParseExceptionReraise(response, label) ==
    [raised |-> TRUE,
     key_info_json |-> EmptyDict,
     summary_and_checklist |-> response]

\* The except clause with a slip: the sentiment is not put back.
OnParseExceptionEmpty(response, label) ==
    [raised |-> FALSE,
     key_info_json |-> EmptyDict,
     summary_and_checklist |-> response]

\* The except clause with a slip: the residual is cleared.
OnParseExceptionClearsResidual(response, label) ==
    [raised |-> FALSE,
     key_info_json |-> DictSet(EmptyDict, "sentiment", label),
     summary_and_checklist |-> <<>>]

\* The except clause with a slip: the error is recorded in the key info.
OnParseExceptionAddsError(response, label) ==
    [raised |-> FALSE,
     key_info_json |-> DictSet(DictSet(EmptyDict, "sentiment", label),
                               "error", "JSON parsing error"),
     summary_and_checklist |-> response]

\* The except clause: the sentiment alone, the residual left as initialised.
OnParseException(response, label) ==
    [raised |-> FALSE,
     key_info_json |-> DictSet(EmptyDict, "sentiment", label),
     summary_and_checklist |-> response]

\* The try block with a slip: json_end is the index of the last "}".
ParseBlockNoPlusOne(response, label) ==
    LET json_start == Find(response, "{")
        json_end   == RFind(response, "}")
    IN  IF json_start # -1 /\ json_end # -1
        THEN LET json_string == Slice(response, json_start, json_end)
                 loaded      == JsonLoads(json_string)
             IN  IF loaded.kind = "dict"
                 THEN [raised |-> FALSE,
                       key_info_json |-> DictSet(loaded.value, "sentiment", label),
                       summary_and_checklist |-> Strip(SliceFrom(response, json_end))]
                 ELSE [raised |-> TRUE,
                       key_info_json |-> EmptyDict,
                       summary_and_checklist |-> response]
        ELSE [raised |-> FALSE,
              key_info_json |-> EmptyDict,
              summary_and_checklist |-> response]

\* The try block with a slip: the residual is not stripped.
ParseBlockNoStrip(response, label) ==
    LET json_start == Find(response, "{")
        json_end   == RFind(response, "}") + 1
    IN  IF json_start # -1 /\ json_end # -1
        THEN LET json_string == Slice(response, json_start, json_end)
                 loaded      == JsonLoads(json_string)
             IN  IF loaded.kind = "dict"
                 THEN [raised |-> FALSE,
                       key_info_json |-> DictSet(loaded.value, "sentiment", label),
                       summary_and_checklist |-> SliceFrom(response, json_end)]
                 ELSE [raised |-> TRUE,
                       key_info_json |-> EmptyDict,
                       summary_and_checklist |-> response]
        ELSE [raised |-> FALSE,
              key_info_json |-> EmptyDict,
              summary_and_checklist |-> response]

\* The try block with a slip: the residual keeps the JSON span.
ParseBlockKeepsSpan(response, label) ==
    LET json_start == Find(response, "{")
        json_end   == RFind(response, "}") + 1
    IN  IF json_start # -1 /\ json_end # -1
        THEN LET json_string == Slice(response, json_start, json_end)
                 loaded      == JsonLoads(json_string)
             IN  IF loaded.kind = "dict"
                 THEN [raised |-> FALSE,
                       key_info_json |-> DictSet(loaded.value, "sentiment", label),
                       summary_and_checklist |-> Strip(response)]
                 ELSE [raised |-> TRUE,
                       key_info_json |-> EmptyDict,
                       summary_and_checklist |-> response]
        ELSE [raised |-> FALSE,
              key_info_json |-> EmptyDict,
              summary_and_checklist |-> response]

\* The body of the try block.  raised: an exception left the body.
ParseBlock(response, label) ==
    LET json_start == Find(response, "{")
        json_end   == RFind(response, "}") + 1
    IN  IF json_start # -1 /\ json_end # -1
        THEN LET json_string == Slice(response, json_start, json_end)
                 loaded      == JsonLoads(json_string)
             IN  IF loaded.kind = "dict"
                 THEN [raised |-> FALSE,
                       key_info_json |-> DictSet(loaded.value, "sentiment", label),
                       summary_and_checklist |-> Strip(SliceFrom(response, json_end))]
                 ELSE [raised |-> TRUE,
                       key_info_json |-> EmptyDict,
                       summary_and_checklist |-> response]
        ELSE [raised |-> FALSE,
              key_info_json |-> EmptyDict,
              summary_and_checklist |-> response]

\* key_info_json, summary_and_checklist = {}, main_response; try: ... except: ...
InterpretResponse(response, label) ==
    LET r == ParseBlock(response, label)
    IN  IF r.raised THEN OnParseException(response, label) ELSE r

\* ------------------------------------------------------ Completion Client

\* str.replace(fence + 'json', ''): one pass, left to right.
RECURSIVE RemoveFenceJson(_)
RemoveFenceJson(s) ==
    IF Len(s) = 0 THEN <<>>
    ELSE IF Len(s) >= 2 /\ s[1] = "fence" /\ s[2] = "json"
         THEN RemoveFenceJson(SubSeq(s, 3, Len(s)))
    ELSE <<s[1]>> \o RemoveFenceJson(Tail(s))

\* str.replace(fence, '')
RemoveFence(s) == SelectSeq(s, LAMBDA c : c # "fence")

\* response.text.strip().replace(fence + 'json', '').replace(fence, '').strip()
CleanResponse(text) == Strip(RemoveFence(RemoveFenceJson(Strip(text))))

\* f"Sorry, there was an error with the AI model: {e}"
ErrorString == <<"Sorry", "exc">>

\* What the external model may answer.
ModelTexts ==
    {<<"fence", "json", "{", "D", ",", "M", "}", "fence">>,
     <<"{", "m", "}", " ", "x">>,
     <<"{", "}">>,
     <<"x">>,
     <<"1">>}

\* The outcomes of model.generate_content(prompt) and response.text.
Outcomes == {[raised |-> TRUE]} \cup {[raised |-> FALSE, text |-> t] : t \in ModelTexts}

\* get_gemini_response(prompt), given the outcome of the external call.
GetGeminiResponse(outcome) ==
    IF outcome.raised THEN ErrorString ELSE CleanResponse(outcome.text)

\* -------------------------------------------------------- text extraction

None == [kind |-> "None"]

Unset == [kind |-> "unset"]

\* Extracted texts, by their length and their length once stripped.
Texts ==
    {[kind |-> "str", len |-> 0, stripped |-> 0],
     [kind |-> "str", len |-> 60, stripped |-> 49],
     [kind |-> "str", len |-> 50, stripped |-> 50],
     [kind |-> "str", len |-> 120, stripped |-> 120]}

\* What reading a document with a library (or OCR) may do.
ReadOutcomes == {[raised |-> TRUE]} \cup {[raised |-> FALSE, text |-> t] : t \in Texts}

\* Below this stripped length a PDF's text is replaced by OCR output.
OcrThreshold == 100

\* Below this stripped length the text is not analysed.
MinTextLen == 50

\* extract_text_from_pdf(file_stream, file_extension) of app.py.
ExtractTextFromPdf(file_extension, direct, ocr) ==
    IF file_extension = ".pdf"
    THEN IF direct.raised THEN None
         ELSE IF direct.text.stripped < OcrThreshold
              THEN IF ocr.raised THEN None ELSE ocr.text
         ELSE direct.text
    ELSE IF file_extension \in {".docx", ".doc"}
         THEN IF direct.raised THEN None ELSE direct.text
    ELSE None

\* extract_text_from_file(file) of main.py, once the upload is saved:
\* (text, error).
ExtractTextFromFile(file_extension, read) ==
    IF file_extension \in {".pdf", ".docx"}
    THEN IF read.raised
         THEN [text |-> None, error |-> "Error extracting text: {e}"]
         ELSE [text |-> read.text, error |-> "None"]
    ELSE [text |-> None, error |-> "Unsupported file type"]

\* Python truth of a text or None.
Truthy(text) == text.kind = "str" /\ text.len > 0

\* not document_text or len(document_text.strip()) < 50
Insufficient(text) == ~Truthy(text) \/ text.stripped < MinTextLen

\* --------------------------------------------------------------- templates

\* The prompt templates of app.py: "x" stands for their literal text.
CLASSIFY_PROMPT == <<"x", "{", "document_text", "}", "x">>

MAIN_ANALYSIS_PROMPT ==
    <<"x", "{", "jurisdiction", "}", "x", "{", "language", "}", "x",
      "{", "{", "x", "}", "}", "x", "{", "{", "x", "}", "}", "x", "{", "{", "x", "}", "}",
      "x", "{", "document_text", "}", "x">>

RISK_ANALYSIS_PROMPT ==
    <<"x", "{", "jurisdiction", "}", "x", "{", "language", "}", "x",
      "{", "document_text", "}", "x", "{", "language", "}", "x">>

QUESTIONS_TO_ASK_PROMPT ==
    <<"x", "{", "language", "}", "x", "{", "risk_analysis_text", "}", "x",
      "{", "language", "}", "x">>

LEGAL_FORMALITIES_PROMPT ==
    <<"x", "{", "doc_type", "}", "x", "{", "jurisdiction", "}", "x",
      "{", "language", "}", "x", "{", "language", "}", "x">>

MISSING_CLAUSES_PROMPT ==
    <<"x", "{", "doc_type", "}", "x", "{", "jurisdiction", "}", "x",
      "{", "language", "}", "x", "{", "document_text", "}", "x",
      "{", "language", "}", "x">>

ANALYZE_CLAUSE_PROMPT ==
    <<"x", "{", "jurisdiction", "}", "x", "{", "language", "}", "x",
      "{", "clause_text", "}", "x", "{", "language", "}", "x">>

COMPARE_PROMPT ==
    <<"x", "{", "language", "}", "x", "{", "doc_a_text", "}", "x",
      "{", "doc_b_text", "}", "x", "{", "language", "}", "x">>

EXPLAIN_TERM_PROMPT ==
    <<"x", "{", "language", "}", "x", "{", "term", "}", "x">>

\* The JSON example the rental, loan and tos templates of main.py carry:
\* {"summary": "...", "keyDetails": [{...}, ...], "redFlags": [{...}]}
JsonExample ==
    <<"{", "\"summary\"", ":", "x", ",", "x", ":", "x", "{", "x", ":", "x", "}", ",",
      "x", ":", "x", "{", "x", ":", "x", "}", "x", "}">>

PromptIds == {"rental", "loan", "tos", "chat"}

\* PROMPTS of main.py.
PROMPTS ==
    [id \in PromptIds |->
        IF id = "chat"
        THEN <<"x", "{", "text", "}", "x", "{", "question", "}", "x">>
        ELSE <<"x">> \o JsonExample \o <<"x", "{", "text", "}", "x">>]

\* The text of the document as a keyword argument.
DocValue == <<"doc">>

\* request.form.get('language', 'English')
Language == <<"English">>

\* request.form.get('jurisdiction', 'a general jurisdiction')
Jurisdiction == <<"a general jurisdiction">>

\* -------------------------------------------------------- app.py /analyze

\* return jsonify(b), code
Respond(code, b) ==
    /\ status' = code
    /\ body' = b
    /\ pc' = "done"

\* The handler moves on without responding.
Goto(next) ==
    /\ pc' = next
    /\ UNCHANGED <<status, body>>

\* The outer except clause of analyze_document.
InternalError == Respond(500, [error |-> "An internal server error occurred."])

\* A Completion Client call was issued, with this outcome.
Called(step, outcome) ==
    /\ calls' = Append(calls, step)
    /\ call_failures' = IF outcome.raised THEN call_failures \cup {step}
                        ELSE call_failures

\* The bearer credential is read and verified.
AppAuthenticate ==
    /\ backend = "app" /\ pc = "auth"
    /\ IF request.credential # "valid"
       THEN Respond(401, [error |-> "Unauthorized."])
       ELSE Goto("upload")
    /\ UNCHANGED <<backend, request, document_text, doc_type, analysisVars, calls,
                   call_failures, documents, interpVars, harnessVars, renderVars,
                   uploadVars>>

\* The upload and the form fields are read.
AppReadUpload ==
    /\ backend = "app" /\ pc = "upload"
    /\ IF ~request.has_file
       THEN Respond(400, [error |-> "No file part"])
       ELSE Goto("extract")
    /\ UNCHANGED <<backend, request, document_text, doc_type, analysisVars, calls,
                   call_failures, documents, interpVars, harnessVars, renderVars,
                   uploadVars>>

\* The text is extracted and its length checked.
AppExtract ==
    /\ backend = "app" /\ pc = "extract"
    /\ \E direct, ocr \in ReadOutcomes :
        LET text == ExtractTextFromPdf(request.file_extension, direct, ocr)
        IN  /\ document_text' = text
            /\ IF Insufficient(text)
               THEN Respond(400, [error |-> "Could not extract sufficient text from this document."])
               ELSE Goto("classify")
    /\ UNCHANGED <<backend, request, doc_type, analysisVars, calls,
                   call_failures, documents, interpVars, harnessVars, renderVars,
                   uploadVars>>

\* Step 1: the document is classified.
AppClassify ==
    /\ backend = "app" /\ pc = "classify"
    /\ LET p == Format(CLASSIFY_PROMPT, [document_text |-> DocValue])
       IN  IF p.kind # "ok"
           THEN /\ InternalError
                /\ UNCHANGED <<calls, call_failures, doc_type, sentiment>>
           ELSE \E o \in Outcomes :
                LET classification_response == GetGeminiResponse(o)
                    classification_json == JsonLoads(classification_response)
                IN  /\ Called("classify", o)
                    /\ IF classification_json.kind = "dict"
                       THEN /\ doc_type' = DictGet(classification_json.value,
                                                   "doc_type", "General Document")
                            /\ sentiment' = DictGet(classification_json.value,
                                                    "sentiment", "Neutral")
                            /\ Goto("main")
                       ELSE /\ InternalError
                            /\ UNCHANGED <<doc_type, sentiment>>
    /\ UNCHANGED <<backend, request, document_text, analysisVars, documents,
                   main_response, key_info_json, summary_and_checklist,
                   harnessVars, renderVars,
                   uploadVars>>

\* Step 2: the main analysis is requested.
AppMainAnalysis ==
    /\ backend = "app" /\ pc = "main"
    /\ LET p == Format(MAIN_ANALYSIS_PROMPT,
                       [document_text |-> DocValue, language |-> Language,
                        jurisdiction |-> Jurisdiction])
       IN  IF p.kind # "ok"
           THEN /\ InternalError
                /\ UNCHANGED <<calls, call_failures, main_response>>
           ELSE \E o \in Outcomes :
                /\ Called("main", o)
                /\ main_response' = GetGeminiResponse(o)
                /\ Goto("interpret")
    /\ UNCHANGED <<backend, request, document_text, doc_type, analysisVars, documents,
                   sentiment, key_info_json, summary_and_checklist,
                   harnessVars, renderVars,
                   uploadVars>>

\* Step 2, continued: the main response is split into key info and residual.
AppInterpret ==
    /\ backend = "app" /\ pc = "interpret"
    /\ LET r == InterpretResponse(main_response, sentiment)
       IN  /\ key_info_json' = r.key_info_json
           /\ summary_and_checklist' = r.summary_and_checklist
           /\ IF r.raised THEN InternalError ELSE Goto("risk")
    /\ UNCHANGED <<backend, request, document_text, doc_type, analysisVars, calls,
                   call_failures, documents, sentiment, main_response,
                   harnessVars, renderVars,
                   uploadVars>>

\* Step 3: the risk analysis.
AppRiskAnalysis ==
    /\ backend = "app" /\ pc = "risk"
    /\ LET p == Format(RISK_ANALYSIS_PROMPT,
                       [document_text |-> DocValue, language |-> Language,
                        jurisdiction |-> Jurisdiction])
       IN  IF p.kind # "ok"
           THEN /\ InternalError
                /\ UNCHANGED <<calls, call_failures, risk_analysis>>
           ELSE \E o \in Outcomes :
                /\ Called("risk", o)
                /\ risk_analysis' = GetGeminiResponse(o)
                /\ Goto("questions")
    /\ UNCHANGED <<backend, request, document_text, doc_type, questions_to_ask,
                   legal_formalities_guidance, missing_clauses, documents,
                   interpVars, harnessVars, renderVars,
                   uploadVars>>

\* Step 3: the questions to ask, derived from the risk analysis.
AppQuestions ==
    /\ backend = "app" /\ pc = "questions"
    /\ LET p == Format(QUESTIONS_TO_ASK_PROMPT,
                       [risk_analysis_text |-> risk_analysis, language |-> Language])
       IN  IF p.kind # "ok"
           THEN /\ InternalError
                /\ UNCHANGED <<calls, call_failures, questions_to_ask>>
           ELSE \E o \in Outcomes :
                /\ Called("questions", o)
                /\ questions_to_ask' = GetGeminiResponse(o)
                /\ Goto("formalities")
    /\ UNCHANGED <<backend, request, document_text, doc_type, risk_analysis,
                   legal_formalities_guidance, missing_clauses, documents,
                   interpVars, harnessVars, renderVars,
                   uploadVars>>

\* Step 3: the guidance on legal formalities.
AppFormalities ==
    /\ backend = "app" /\ pc = "formalities"
    /\ LET p == Format(LEGAL_FORMALITIES_PROMPT,
                       [doc_type |-> <<doc_type>>, language |-> Language,
                        jurisdiction |-> Jurisdiction])
       IN  IF p.kind # "ok"
           THEN /\ InternalError
                /\ UNCHANGED <<calls, call_failures, legal_formalities_guidance>>
           ELSE \E o \in Outcomes :
                /\ Called("formalities", o)
                /\ legal_formalities_guidance' = GetGeminiResponse(o)
                /\ Goto("missing")
    /\ UNCHANGED <<backend, request, document_text, doc_type, risk_analysis,
                   questions_to_ask, missing_clauses, documents,
                   interpVars, harnessVars, renderVars,
                   uploadVars>>

\* Step 3: the missing clauses.
AppMissingClauses ==
    /\ backend = "app" /\ pc = "missing"
    /\ LET p == Format(MISSING_CLAUSES_PROMPT,
                       [doc_type |-> <<doc_type>>, document_text |-> DocValue,
                        language |-> Language, jurisdiction |-> Jurisdiction])
       IN  IF p.kind # "ok"
           THEN /\ InternalError
                /\ UNCHANGED <<calls, call_failures, missing_clauses>>
           ELSE \E o \in Outcomes :
                /\ Called("missing", o)
                /\ missing_clauses' = GetGeminiResponse(o)
                /\ Goto("save")
    /\ UNCHANGED <<backend, request, document_text, doc_type, risk_analysis,
                   questions_to_ask, legal_formalities_guidance, documents,
                   interpVars, harnessVars, renderVars,
                   uploadVars>>

\* Step 4: the analysis is written to the Document Store, which may fail.
AppSave ==
    /\ backend = "app" /\ pc = "save"
    /\ \E stored \in BOOLEAN :
        IF stored
        THEN /\ documents' = Append(documents,
                    [doc_type |-> doc_type, key_info |-> key_info_json,
                     summary_and_checklist |-> summary_and_checklist,
                     risk_analysis |-> risk_analysis,
                     questions_to_ask |-> questions_to_ask,
                     legal_formalities_guidance |-> legal_formalities_guidance,
                     missing_clauses |-> missing_clauses])
             /\ Goto("respond")
        ELSE /\ InternalError
             /\ UNCHANGED documents
    /\ UNCHANGED <<backend, request, document_text, doc_type, analysisVars, calls,
                   call_failures, interpVars, harnessVars, renderVars,
                   uploadVars>>

\* Step 5: the full response.
AppRespond ==
    /\ backend = "app" /\ pc = "respond"
    /\ Respond(200, [key_info |-> key_info_json,
                     summary_and_checklist |-> summary_and_checklist,
                     risk_analysis |-> risk_analysis,
                     questions_to_ask |-> questions_to_ask,
                     legal_formalities_guidance |-> legal_formalities_guidance,
                     missing_clauses |-> missing_clauses,
                     doc_id |-> Len(documents)])
    /\ UNCHANGED <<backend, request, document_text, doc_type, analysisVars, calls,
                   call_failures, documents, interpVars, harnessVars, renderVars,
                   uploadVars>>

\* ------------------------------------------------------- main.py /analyze

\* Flask's answer to an exception no handler caught.
Unhandled == Respond(500, [html |-> "Internal Server Error"])

\* The checks before extraction.
MainValidate ==
    /\ backend = "main" /\ pc = "validate"
    /\ IF ~request.model_configured
       THEN Respond(500, [error |-> "Gemini API not configured."])
       ELSE IF ~request.has_file
       THEN Respond(400, [error |-> "No file part"])
       ELSE IF request.filename_empty
       THEN Respond(400, [error |-> "No selected file"])
       ELSE IF request.docType \notin PromptIds
       THEN Respond(400, [error |-> "Invalid document type"])
       ELSE Goto("extract")
    /\ UNCHANGED <<backend, request, document_text, doc_type, analysisVars, calls,
                   call_failures, documents, interpVars, harnessVars, renderVars,
                   uploadVars>>

\* The upload is saved and read back.
MainExtract ==
    /\ backend = "main" /\ pc = "extract"
    /\ \E saved \in BOOLEAN : \E read \in ReadOutcomes :
        IF ~saved
        THEN /\ Unhandled
             /\ UNCHANGED document_text
        ELSE LET r == ExtractTextFromFile(request.file_extension, read)
             IN  /\ document_text' = r.text
                 /\ IF r.error # "None"
                    THEN Respond(500, [error |-> r.error])
                    ELSE IF ~Truthy(r.text)
                    THEN Respond(400, [error |-> "Could not extract text"])
                    ELSE Goto("analyze")
    /\ UNCHANGED <<backend, request, doc_type, analysisVars, calls,
                   call_failures, documents, interpVars, harnessVars, renderVars,
                   uploadVars>>

\* The prompt is rendered and, when that succeeds, sent to the model.
MainAnalyze ==
    /\ backend = "main" /\ pc = "analyze"
    /\ LET final_prompt == Format(PROMPTS[request.docType], [text |-> DocValue])
       IN  IF final_prompt.kind # "ok"
           THEN /\ Unhandled
                /\ UNCHANGED <<calls, call_failures>>
           ELSE \E o \in Outcomes :
                /\ Called("analyze", o)
                /\ IF o.raised
                   THEN Respond(500, [error |-> "Failed to analyze document with AI."])
                   ELSE LET json_response == JsonLoads(CleanResponse(o.text))
                        IN  IF json_response.kind = "error"
                            THEN Respond(500, [error |-> "Failed to analyze document with AI."])
                            ELSE Respond(200, [analysis |-> json_response,
                                               documentText |-> document_text])
    /\ UNCHANGED <<backend, request, document_text, doc_type, analysisVars,
                   documents, interpVars, harnessVars, renderVars,
                   uploadVars>>

\* ------------------------------------------------------- the specifications

Credentials == {"missing", "rejected", "valid"}

Extensions == {".pdf", ".docx", ".txt"}

AppRequests ==
    [credential : Credentials, has_file : BOOLEAN, file_extension : Extensions]

MainRequests ==
    [model_configured : BOOLEAN, has_file : BOOLEAN, filename_empty : BOOLEAN,
     file_extension : Extensions, docType : PromptIds \cup {"other"}]

\* No request is being served.
HarnessIdle == raw = <<>> /\ fault = FALSE /\ ipc = "idle"

RenderIdle ==
    /\ segments = <<>> /\ template = <<>> /\ variables = EmptyDict
    /\ prompt = [kind |-> "none"] /\ rpc = "idle"

\* No simultaneous requests are being served.
UploadIdle == files = EmptyDict /\ uploads = <<>> /\ workers = <<>>

RequestFresh ==
    /\ document_text = Unset
    /\ doc_type = ""
    /\ risk_analysis = <<>>
    /\ questions_to_ask = <<>>
    /\ legal_formalities_guidance = <<>>
    /\ missing_clauses = <<>>
    /\ calls = <<>>
    /\ call_failures = {}
    /\ documents = <<>>
    /\ status = 0
    /\ body = [kind |-> "none"]

Init ==
    /\ \/ backend = "app" /\ pc = "auth" /\ request \in AppRequests
       \/ backend = "main" /\ pc = "validate" /\ request \in MainRequests
    /\ RequestFresh
    /\ sentiment = ""
    /\ main_response = <<>>
    /\ key_info_json = EmptyDict
    /\ summary_and_checklist = <<>>
    /\ HarnessIdle
    /\ RenderIdle
    /\ UploadIdle

Next ==
    \/ AppAuthenticate \/ AppReadUpload \/ AppExtract \/ AppClassify
    \/ AppMainAnalysis \/ AppInterpret \/ AppRiskAnalysis \/ AppQuestions
    \/ AppFormalities \/ AppMissingClauses \/ AppSave \/ AppRespond
    \/ MainValidate \/ MainExtract \/ MainAnalyze

\* One /analyze request, on either backend.
Spec == Init /\ [][Next]_vars

\* ---- the interpretation step on every short text

InterpLexemes == {"{", "}", ",", " ", "x", "m", "M"}

Sentiments == {"Neutral", "Negative"}

InterpInit ==
    /\ backend = "none" /\ pc = "idle" /\ request = [kind |-> "none"]
    /\ RequestFresh
    /\ RenderIdle
    /\ UploadIdle
    /\ raw \in Seqs(InterpLexemes, MaxLen)
    /\ main_response = raw
    /\ sentiment \in Sentiments
    /\ key_info_json = EmptyDict
    /\ summary_and_checklist = <<>>
    /\ fault = FALSE
    /\ ipc = "start"

\* The interpretation step applied to main_response.
Interpret ==
    /\ ipc = "start"
    /\ LET r == InterpretResponse(main_response, sentiment)
       IN  /\ key_info_json' = r.key_info_json
           /\ summary_and_checklist' = r.summary_and_checklist
           /\ fault' = r.raised
    /\ ipc' = "done"
    /\ UNCHANGED <<requestVars, renderVars, uploadVars, raw, main_response, sentiment>>

\* The interpretation step applied again, to the residual of the first run.
Reinterpret ==
    /\ ipc = "done"
    /\ ~fault
    /\ main_response' = summary_and_checklist
    /\ LET r == InterpretResponse(summary_and_checklist, sentiment)
       IN  /\ key_info_json' = r.key_info_json
           /\ summary_and_checklist' = r.summary_and_checklist
           /\ fault' = r.raised
    /\ ipc' = "rerun"
    /\ UNCHANGED <<requestVars, renderVars, uploadVars, raw, sentiment>>

InterpNext == Interpret \/ Reinterpret

SpecInterp == InterpInit /\ [][InterpNext]_vars

\* ---- str.format on every short template

\* Longest template, in segments.
MaxSegments == 4

Names == {"a", "b"}

\* A template is written as text, escaped braces and fields.
Segments == {"x", "{{", "}}", "{a}", "{b}", "{a:{b}}"}

SegmentText(g) ==
    CASE g = "x"  -> <<"x">>
      [] g = "{{" -> <<"{", "{">>
      [] g = "}}" -> <<"}", "}">>
      [] g = "{a}" -> <<"{", "a", "}">>
      [] g = "{b}" -> <<"{", "b", "}">>
      [] g = "{a:{b}}" -> <<"{", "a", ":", "{", "b", "}", "}">>

RECURSIVE Flatten(_)
Flatten(segs) ==
    IF Len(segs) = 0 THEN <<>> ELSE SegmentText(Head(segs)) \o Flatten(Tail(segs))

Upper(n) == IF n = "a" THEN <<"A">> ELSE <<"B">>

RenderInit ==
    /\ backend = "none" /\ pc = "idle" /\ request = [kind |-> "none"]
    /\ RequestFresh
    /\ sentiment = ""
    /\ main_response = <<>>
    /\ key_info_json = EmptyDict
    /\ summary_and_checklist = <<>>
    /\ HarnessIdle
    /\ UploadIdle
    /\ segments \in Seqs(Segments, MaxSegments)
    /\ template = Flatten(segments)
    /\ variables \in {[n \in S |-> Upper(n)] : S \in SUBSET Names}
    /\ prompt = [kind |-> "none"]
    /\ rpc = "start"

\* template.format(**variables)
Render ==
    /\ rpc = "start"
    /\ prompt' = Format(template, variables)
    /\ rpc' = "done"
    /\ UNCHANGED <<requestVars, interpVars, harnessVars, uploadVars,
                   segments, template, variables>>

SpecRender == RenderInit /\ [][Render]_vars

\* ---- str.format at the call sites of the two backends

\* The call sites of app.py: the template and the keyword arguments passed.
AppCallSites ==
    {[template |-> CLASSIFY_PROMPT, names |-> {"document_text"}],
     [template |-> MAIN_ANALYSIS_PROMPT,
      names |-> {"document_text", "language", "jurisdiction"}],
     [template |-> RISK_ANALYSIS_PROMPT,
      names |-> {"document_text", "language", "jurisdiction"}],
     [template |-> QUESTIONS_TO_ASK_PROMPT,
      names |-> {"risk_analysis_text", "language"}],
     [template |-> LEGAL_FORMALITIES_PROMPT,
      names |-> {"doc_type", "language", "jurisdiction"}],
     [template |-> MISSING_CLAUSES_PROMPT,
      names |-> {"doc_type", "document_text", "language", "jurisdiction"}],
     [template |-> ANALYZE_CLAUSE_PROMPT,
      names |-> {"clause_text", "language", "jurisdiction"}],
     [template |-> COMPARE_PROMPT,
      names |-> {"doc_a_text", "doc_b_text", "language"}],
     [template |-> EXPLAIN_TERM_PROMPT, names |-> {"term", "language"}]}

\* /analyze of main.py: PROMPTS[doc_type].format(text=document_text).
MainAnalyzeCallSites ==
    {[template |-> PROMPTS[id], names |-> {"text"}] : id \in PromptIds}

\* /chat of main.py: PROMPTS["chat"].format(text=..., question=...).
MainChatCallSite == [template |-> PROMPTS["chat"], names |-> {"text", "question"}]

CallSites == AppCallSites \cup MainAnalyzeCallSites \cup {MainChatCallSite}

\* Values passed for a keyword argument: braces in a value are not scanned.
ArgumentTexts == {<<>>, <<"doc">>, <<"{", "x", "}">>}

CallSiteInit ==
    /\ backend = "none" /\ pc = "idle" /\ request = [kind |-> "none"]
    /\ RequestFresh
    /\ sentiment = ""
    /\ main_response = <<>>
    /\ key_info_json = EmptyDict
    /\ summary_and_checklist = <<>>
    /\ HarnessIdle
    /\ UploadIdle
    /\ segments = <<>>
    /\ \E site \in CallSites :
        /\ template = site.template
        /\ variables \in [site.names -> ArgumentTexts]
    /\ prompt = [kind |-> "none"]
    /\ rpc = "start"

\* Every call site of the two backends renders its template.
SpecCallSites == CallSiteInit /\ [][Render]_vars

\* ---- simultaneous /analyze requests on main.py

\* Requests served at the same time.
NumRequests == 2

Requests == 1..NumRequests

\* file.filename of an upload.
Filenames == {"lease.pdf", "lease.docx", "notes.txt"}

\* What filename.endswith(...) tells of the name.
ExtensionOf(filename) ==
    CASE filename = "lease.pdf"  -> ".pdf"
      [] filename = "lease.docx" -> ".docx"
      [] filename = "notes.txt"  -> ".txt"

\* An upload's content, by what fitz or docx does when reading it.
Contents == ReadOutcomes

\* Requests that passed the checks of analyze_document.
Uploads == [filename : Filenames, content : Contents, docType : PromptIds]

\* Opening a path that does not exist raises.
ReadFile(name) ==
    IF name \in DOMAIN files THEN files[name] ELSE [raised |-> TRUE]

\* The directory without the file.
Removed(name) == [n \in (DOMAIN files) \ {name} |-> files[n]]

\* The responses analyze_document may give once extract_text_from_file
\* returned (text, error).
MainAnswers(text, error, docType) ==
    IF error # "None" THEN {[status |-> 500, body |-> [error |-> error]]}
    ELSE IF ~Truthy(text)
    THEN {[status |-> 400, body |-> [error |-> "Could not extract text"]]}
    ELSE IF Format(PROMPTS[docType], [text |-> DocValue]).kind # "ok"
    THEN {[status |-> 500, body |-> [html |-> "Internal Server Error"]]}
    ELSE {IF o.raised \/ JsonLoads(CleanResponse(o.text)).kind = "error"
          THEN [status |-> 500, body |-> [error |-> "Failed to analyze document with AI."]]
          ELSE [status |-> 200,
                body |-> [analysis |-> JsonLoads(CleanResponse(o.text)),
                          documentText |-> text]] : o \in Outcomes}

ConcurrentInit ==
    /\ backend = "none" /\ pc = "idle" /\ request = [kind |-> "none"]
    /\ RequestFresh
    /\ sentiment = ""
    /\ main_response = <<>>
    /\ key_info_json = EmptyDict
    /\ summary_and_checklist = <<>>
    /\ HarnessIdle
    /\ RenderIdle
    /\ files = EmptyDict
    /\ uploads \in [Requests -> Uploads]
    /\ workers = [p \in Requests |->
                    [pc |-> "save", text |-> Unset, error |-> "None",
                     status |-> 0, body |-> [kind |-> "none"]]]

\* file.save(temp_filepath): the file is created or overwritten.
SaveUpload(p) ==
    /\ workers[p].pc = "save"
    /\ files' = DictSet(files, uploads[p].filename, uploads[p].content)
    /\ workers' = [workers EXCEPT ![p].pc = "read"]
    /\ UNCHANGED <<requestVars, interpVars, harnessVars, renderVars, uploads>>

\* The try block of extract_text_from_file: the saved file is opened by name
\* and read.
ReadUpload(p) ==
    /\ workers[p].pc = "read"
    /\ LET name == uploads[p].filename
           r    == ExtractTextFromFile(ExtensionOf(name), ReadFile(name))
       IN  workers' = [workers EXCEPT ![p].pc = "remove",
                                      ![p].text = r.text,
                                      ![p].error = r.error]
    /\ UNCHANGED <<requestVars, interpVars, harnessVars, renderVars, files, uploads>>

\* os.remove(temp_filepath): FileNotFoundError when the file is gone, which
\* no handler catches.
RemoveUpload(p) ==
    /\ workers[p].pc = "remove"
    /\ LET name == uploads[p].filename
       IN  IF name \in DOMAIN files
           THEN /\ files' = Removed(name)
                /\ workers' = [workers EXCEPT ![p].pc = "answer"]
           ELSE /\ files' = files
                /\ workers' = [workers EXCEPT
                                 ![p].pc = "done",
                                 ![p].status = 500,
                                 ![p].body = [html |-> "Internal Server Error"]]
    /\ UNCHANGED <<requestVars, interpVars, harnessVars, renderVars, uploads>>

\* The rest of analyze_document.
AnswerUpload(p) ==
    /\ workers[p].pc = "answer"
    /\ \E a \in MainAnswers(workers[p].text, workers[p].error, uploads[p].docType) :
        workers' = [workers EXCEPT ![p].pc = "done",
                                   ![p].status = a.status,
                                   ![p].body = a.body]
    /\ UNCHANGED <<requestVars, interpVars, harnessVars, renderVars, files, uploads>>

ConcurrentNext ==
    \E p \in Requests :
        \/ SaveUpload(p)
        \/ ReadUpload(p)
        \/ RemoveUpload(p)
        \/ AnswerUpload(p)

\* Simultaneous /analyze requests on main.py, interleaved at the file
\* operations.
SpecConcurrent == ConcurrentInit /\ [][ConcurrentNext]_vars

\* ------------------------------------------ properties of the interpreter

Interpreted == ipc \in {"done", "rerun"}

HasOpen(s)  == Find(s, "{") # -1
HasClose(s) == RFind(s, "}") # -1

\* The last "}" comes after the first "{".
HasSpan(s) == HasOpen(s) /\ RFind(s, "}") > Find(s, "{")

\* First "{" to last "}" inclusive, and the text on either side of it.
Candidate(s)  == Slice(s, Find(s, "{"), RFind(s, "}") + 1)
BeforeSpan(s) == Slice(s, 0, Find(s, "{"))
AfterSpan(s)  == SliceFrom(s, RFind(s, "}") + 1)

SpanParses(s) == HasSpan(s) /\ JsonLoads(Candidate(s)).kind = "dict"

\* What json.loads made of the candidate span; no keys when nothing parsed.
ParsedOf(s) == IF SpanParses(s) THEN JsonLoads(Candidate(s)).value ELSE EmptyDict

SentimentOnly == DictSet(EmptyDict, "sentiment", sentiment)

\* C1: whatever the model output, the interpretation step ends without an
\* exception leaving it and yields a (mapping, text) pair.
C1_NeverFails ==
    Interpreted =>
        /\ ~fault
        /\ Keys(key_info_json) \subseteq {MemberKey(t) : t \in Members}
        /\ Len(summary_and_checklist) <= Len(main_response)
        /\ \A i \in 1..Len(summary_and_checklist) :
               summary_and_checklist[i] \in InterpLexemes

\* C1 witness: a response whose last "}" precedes its first "{" was interpreted.
C1_Witness ==
    /\ ipc = "done"
    /\ HasOpen(main_response) /\ HasClose(main_response)
    /\ ~HasSpan(main_response)
    /\ ~fault

\* C2 as claimed: with "{" absent, "}" absent or the last "}" before the first
\* "{", the structured result has no keys and the residual is the whole text.
C2_Original ==
    (Interpreted /\ ~HasSpan(main_response)) =>
        /\ Keys(key_info_json) = {}
        /\ summary_and_checklist = main_response

\* C2 amended: in those cases the residual is the whole text; the structured
\* result has no keys when "{" is absent, and holds the sentiment label alone
\* when a "{" is present.
C2_NoSpan ==
    (Interpreted /\ ~HasSpan(main_response)) =>
        /\ summary_and_checklist = main_response
        /\ ~HasOpen(main_response) => key_info_json = EmptyDict
        /\ HasOpen(main_response) => key_info_json = SentimentOnly

\* C2 witness: a response with a "{" and no "}" was interpreted.
C2_Witness ==
    /\ ipc = "done"
    /\ HasOpen(main_response) /\ ~HasClose(main_response)
    /\ key_info_json = SentimentOnly

\* JSON objects as the ordered lists of their members, for stringify.
NoDuplicateKey(ms) ==
    \A i, j \in 1..Len(ms) : MemberKey(ms[i]) = MemberKey(ms[j]) => i = j

JObjects == {ms \in Seqs({"m", "M"}, 2) : NoDuplicateKey(ms)}

RECURSIVE JoinMembers(_)
JoinMembers(ms) ==
    IF Len(ms) = 0 THEN <<>>
    ELSE IF Len(ms) = 1 THEN <<ms[1]>>
    ELSE <<ms[1], ",">> \o JoinMembers(Tail(ms))

\* stringify(j): the braces around the members, separated by commas.
Stringify(ms) == <<"{">> \o JoinMembers(ms) \o <<"}">>

\* The mapping a member list denotes.
RECURSIVE ToDict(_)
ToDict(ms) ==
    IF Len(ms) = 0 THEN EmptyDict
    ELSE DictSet(ToDict(SubSeq(ms, 1, Len(ms) - 1)),
                 MemberKey(ms[Len(ms)]), MemberValue(ms[Len(ms)]))

\* Each object's text and the mapping it denotes.
Stringified == {<<Stringify(j), ToDict(j)>> : j \in JObjects}

\* The splits main_response = p + t + q, as <<Len(p), Len(p + t)>>.
Embeddings(s, t) ==
    {ab \in (0..Len(s)) \X (0..Len(s)) :
        ab[2] - ab[1] = Len(t) /\ Slice(s, ab[1], ab[2]) = t}

\* C3 as claimed: for any prose p, q and any JSON object j, interpreting
\* p + stringify(j) + q gives a structured result equal to j.
C3_Original ==
    Interpreted =>
        \A tj \in Stringified :
            Embeddings(main_response, tj[1]) # {} => key_info_json = tj[2]

\* C3 amended: when p holds no "{" and q holds no "}", the structured result
\* is j with its "sentiment" entry set to the caller's label.
C3_Embedded ==
    Interpreted =>
        \A tj \in Stringified : \A ab \in Embeddings(main_response, tj[1]) :
            (/\ ~HasOpen(Slice(main_response, 0, ab[1]))
             /\ ~HasClose(SliceFrom(main_response, ab[2])))
            => key_info_json = DictSet(tj[2], "sentiment", sentiment)

\* C3 witness: an object with a member, between prose on both sides.
C3_Witness ==
    /\ ipc = "done"
    /\ main_response = <<"x", "{", "m", "}", "x">>
    /\ Keys(key_info_json) = {"rent_amount", "sentiment"}

\* C4 as claimed: a span that is not valid JSON gives a structured result
\* with no keys, the whole text as residual, and no fault.
C4_Original ==
    (Interpreted /\ HasSpan(main_response) /\ ~SpanParses(main_response)) =>
        /\ Keys(key_info_json) = {}
        /\ summary_and_checklist = main_response
        /\ ~fault

\* C4 amended: a span that is not valid JSON gives a structured result that
\* holds the sentiment label alone, the whole text as residual, and no fault.
C4_Malformed ==
    (Interpreted /\ HasSpan(main_response) /\ ~SpanParses(main_response)) =>
        /\ key_info_json = SentimentOnly
        /\ summary_and_checklist = main_response
        /\ ~fault

\* C4 witness: an object with a trailing comma was interpreted.
C4_Witness ==
    /\ ipc = "done"
    /\ main_response = <<"{", "m", ",", "}">>
    /\ summary_and_checklist = main_response

\* C5 as claimed: on a successful parse the residual is the text before the
\* span followed by the text after it, trimmed.
C5_Original ==
    (Interpreted /\ SpanParses(main_response)) =>
        summary_and_checklist =
            Strip(BeforeSpan(main_response) \o AfterSpan(main_response))

\* C5 amended: on a successful parse the residual is the text after the last
\* "}", trimmed; the text before the first "{" is dropped.
C5_Residual ==
    (Interpreted /\ SpanParses(main_response)) =>
        summary_and_checklist = Strip(AfterSpan(main_response))

\* C5 witness: prose before the span, whitespace and prose after it.
C5_Witness ==
    /\ ipc = "done"
    /\ main_response = <<"x", "{", "}", " ", "x">>
    /\ summary_and_checklist = <<"x">>

\* C6 as claimed: the keys of the structured result are among the keys of
\* the parsed object (none when nothing parsed).
C6_Original ==
    Interpreted => Keys(key_info_json) \subseteq Keys(ParsedOf(main_response))

\* C6 amended: the only key the step adds to those of the parsed object is
\* "sentiment", and every other entry is the parsed object's; with no "{" in
\* the text nothing is added.
C6_OnlySentiment ==
    Interpreted =>
        /\ Keys(key_info_json) \subseteq
               Keys(ParsedOf(main_response)) \cup {"sentiment"}
        /\ \A k \in Keys(key_info_json) \ {"sentiment"} :
               key_info_json[k] = ParsedOf(main_response)[k]
        /\ ~HasOpen(main_response) => Keys(key_info_json) = {}

\* C6 witness: the parsed object has no "sentiment", the result has one.
C6_Witness ==
    /\ ipc = "done"
    /\ Keys(ParsedOf(main_response)) = {"rent_amount"}
    /\ Keys(key_info_json) = {"rent_amount", "sentiment"}

\* C7 as claimed: interpreting a residual gives a structured result with no
\* keys and the residual itself.
C7_Original ==
    ipc = "rerun" =>
        /\ Keys(key_info_json) = {}
        /\ summary_and_checklist = main_response

\* C7 amended: interpreting a residual gives the residual itself; the
\* structured result has no keys when the residual holds no "{", and holds
\* the sentiment label alone when it does.
C7_Idempotent ==
    ipc = "rerun" =>
        /\ summary_and_checklist = main_response
        /\ ~HasOpen(main_response) => key_info_json = EmptyDict
        /\ HasOpen(main_response) => key_info_json = SentimentOnly

\* C7 witness: the residual of a successful parse was interpreted again.
C7_Witness ==
    /\ ipc = "rerun"
    /\ SpanParses(raw)
    /\ main_response # <<>>
    /\ main_response # raw

\* ----------------------------------------------- properties of str.format

SegmentFields(g) ==
    CASE g = "{a}" -> {"a"}
      [] g = "{b}" -> {"b"}
      [] g = "{a:{b}}" -> {"a", "b"}
      [] OTHER -> {}

\* The variables a template references.
Declared(segs) == UNION {SegmentFields(segs[i]) : i \in 1..Len(segs)}

\* The text of a template whose fields are replaced by their values.
RECURSIVE Substituted(_, _)
Substituted(segs, kwargs) ==
    IF Len(segs) = 0 THEN <<>>
    ELSE LET g == Head(segs)
             t == CASE g = "x"  -> <<"x">>
                    [] g = "{{" -> <<"{">>
                    [] g = "}}" -> <<"}">>
                    [] g = "{a}" -> kwargs["a"]
                    [] g = "{b}" -> kwargs["b"]
                    [] OTHER -> <<>>
         IN  t \o Substituted(Tail(segs), kwargs)

\* C8: rendering a template that references a variable the mapping lacks
\* raises KeyError for such a variable; and a prompt that is returned has
\* every field replaced by its value, so no placeholder is left in it.
C8_MissingVariable ==
    rpc = "done" =>
        /\ ~(Declared(segments) \subseteq Keys(variables)) =>
               /\ prompt.kind = "KeyError"
               /\ \E n \in Declared(segments) \ Keys(variables) : prompt.name = <<n>>
        /\ prompt.kind = "ok" => prompt.text = Substituted(segments, variables)

\* C8 witness: a template with two fields was rendered with one supplied.
C8_Witness ==
    /\ rpc = "done"
    /\ segments = <<"x", "{a}", "{b}">>
    /\ Keys(variables) = {"a"}
    /\ prompt.kind = "KeyError"

\* ------------------------------------------- properties of /analyze requests

Finished == pc = "done"

AllCalls == <<"classify", "main", "risk", "questions", "formalities", "missing">>

\* The six calls were issued and the write to the Document Store then failed.
StoreFailed == Finished /\ calls = AllCalls /\ documents = <<>>

\* C9: when a Completion Client call of the app.py pipeline fails, the
\* remaining calls are still issued and the request ends with a success
\* response (unless the Document Store write fails afterwards).
C9_Original ==
    (backend = "app" /\ Finished /\ call_failures # {}) =>
        /\ calls = AllCalls
        /\ status = 200 \/ StoreFailed

\* C9, what the code does: a failed call other than the classification does
\* not abort the request.
C9_AfterClassification ==
    (backend = "app" /\ Finished /\ call_failures # {}
        /\ "classify" \notin call_failures) =>
        /\ calls = AllCalls
        /\ status = 200 \/ StoreFailed

\* The credential was missing or rejected.
AuthFailed == backend = "app" /\ request.credential # "valid"

\* Extraction was attempted and gave nothing or fewer than 50 characters.
ExtractionFailed == document_text # Unset /\ Insufficient(document_text)

\* C10: a request that fails at the boundary ends with 401 (credential) or
\* a 400-class status (extraction), with no Completion Client call and no
\* Document Store write.
C10_Original ==
    Finished =>
        /\ AuthFailed => status = 401 /\ calls = <<>> /\ documents = <<>>
        /\ ExtractionFailed =>
               status \in 400..499 /\ calls = <<>> /\ documents = <<>>

\* C10, what the code does: the claim holds of app.py.
C10_App ==
    (Finished /\ backend = "app") =>
        /\ AuthFailed => status = 401 /\ calls = <<>> /\ documents = <<>>
        /\ ExtractionFailed =>
               status = 400 /\ calls = <<>> /\ documents = <<>>

\* The fields of a response body that hold text written by the model.
TextFields ==
    {"summary_and_checklist", "risk_analysis", "questions_to_ask",
     "legal_formalities_guidance", "missing_clauses"}

\* The text of an exception (the {e} of an f-string) occurs in the text.
HasExceptionText(text) == \E i \in 1..Len(text) : text[i] = "exc"

\* The body carries the text of an exception: in its error field (main.py's
\* "Error extracting text: {e}") or in one of its text fields (app.py's
\* "Sorry, there was an error with the AI model: {e}").
CarriesExceptionText(b) ==
    \/ /\ "error" \in DOMAIN b
       /\ b.error = ExtractTextFromFile(".pdf", [raised |-> TRUE]).error
    \/ \E f \in TextFields \cap DOMAIN b : HasExceptionText(b[f])

\* C11: no response body carries the text of an internal exception.
C11_Original == Finished => ~CarriesExceptionText(body)

\* C11, what the code does: a failure caught by the outer except clause of
\* app.py's analyze_document is answered with the fixed message.
C11_OuterExcept ==
    (Finished /\ backend = "app" /\ status = 500) =>
        body = [error |-> "An internal server error occurred."]

\* C11, the two leaks: a success response of app.py whose text holds the
\* Completion Client's exception, and main.py's extraction error.
C11_LeakInSuccess ==
    ~(backend = "app" /\ status = 200 /\ CarriesExceptionText(body))

C11_LeakInExtractionError ==
    ~(backend = "main" /\ status = 500 /\ CarriesExceptionText(body))

\* ------------------------------------ properties of simultaneous requests

\* What extract_text_from_file returns for the upload when nothing else
\* touches its file.
OwnExtraction(u) == ExtractTextFromFile(ExtensionOf(u.filename), u.content)

\* The responses to the upload's request when it is served alone.
AloneAnswers(u) ==
    MainAnswers(OwnExtraction(u).text, OwnExtraction(u).error, u.docType)

\* The request's temporary file is in use: saved and not yet removed.
InUse(p) == workers[p].pc \in {"read", "remove"}

\* The temporary file is there and holds the request's own upload.
OwnFileIntact(p) ==
    /\ uploads[p].filename \in DOMAIN files
    /\ files[uploads[p].filename] = uploads[p].content

\* The request has read, and what it read is its own upload.
ReadOwnText(p) ==
    workers[p].pc \in {"remove", "answer"} =>
        /\ workers[p].text = OwnExtraction(uploads[p]).text
        /\ workers[p].error = OwnExtraction(uploads[p]).error

\* The request ended as it would have ended alone.
SameAsAlone(p) ==
    workers[p].pc = "done" =>
        [status |-> workers[p].status, body |-> workers[p].body]
            \in AloneAnswers(uploads[p])

Independent(p) ==
    /\ InUse(p) => OwnFileIntact(p)
    /\ ReadOwnText(p)
    /\ SameAsAlone(p)

\* C12: in every interleaving of simultaneous /analyze requests each request
\* reads only its own upload, its temporary file is not overwritten or
\* removed by another request while in use, and it ends as it would alone.
C12_Original == \A p \in Requests : Independent(p)

\* C12, what the code does: the claim holds of requests whose uploads have
\* a filename no other simultaneous upload has.
C12_DistinctNames ==
    \A p \in Requests :
        (\A q \in Requests \ {p} : uploads[q].filename # uploads[p].filename)
            => Independent(p)

\* C12, the three ways the claim fails for uploads of the same filename.
C12_ReadsOwnText == \A p \in Requests : ReadOwnText(p)

C12_FileIntact == \A p \in Requests : InUse(p) => OwnFileIntact(p)

C12_SameAsAlone == \A p \in Requests : SameAsAlone(p)

\* ---------------------------------------------- properties of call sites

Rendered == rpc = "done"

AppTemplates == {site.template : site \in AppCallSites}

MainTemplates == {PROMPTS[id] : id \in PromptIds}

\* C13: at every call site of app.py and main.py rendering succeeds and
\* yields a prompt.
C13_Original == Rendered => prompt.kind = "ok"

\* C13, what the code does: the nine call sites of app.py and the /chat call
\* site of main.py render; the values' own braces are left alone.
C13_AppAndChat ==
    (Rendered /\ (template \in AppTemplates \/ Keys(variables) = MainChatCallSite.names))
        => prompt.kind = "ok"

\* C13, what the code does: no call of /analyze of main.py renders.
C13_MainAnalyzeRaises ==
    (Rendered /\ template \in MainTemplates /\ Keys(variables) = {"text"})
        => prompt.kind = "KeyError"

====
